---- MODULE Spec2Model ----
(***************************************************************************)
(* A model of the genealogy tree generator, scripts/generate_bible_tree.py *)
(* and of the row-marking utilities scripts/mark_judges.py and            *)
(* scripts/mark_messianic_line.py.                                         *)
(*                                                                         *)
(* Python strings that the program computes on (ids, names, raw cell      *)
(* values, slugs, titles) are sequences of one-character strings, so that *)
(* isdigit, strip, lower, split and concatenation are computed and not    *)
(* assumed.  Dictionary keys and exception class names are TLA+ strings.  *)
(* A Python dict is a function; "key in d" is key \in DOMAIN d.           *)
(***************************************************************************)
EXTENDS Integers, Sequences, FiniteSets, TLC

VARIABLES
    fieldnames,       \* header of raw-latest/nodes.csv: its column names
    nodes_csv,        \* rows of raw-latest/nodes.csv, in file order
    edges_csv,        \* rows of raw-latest/edges.csv, in file order
    cluster_index,    \* clusters-latest/index.json: a list of cluster entries
    blurbs_json,      \* genealogy_cluster_blurbs.json: slug -> metadata
    output_file,      \* contents of src/assets/data/bible-tree.json
    pc,               \* position of main()
    nodes,            \* main's local: the filtered Person table
    children_map,     \* main's local: the adjacency index
    master_tree,      \* main's local
    clusters_output,  \* main's local
    error,            \* the exception that ended the run, if any
    call,             \* the last direct call of a function: name, argument, result
    sections          \* cluster sections compiled out of order: index -> section

vars == <<fieldnames, nodes_csv, edges_csv, cluster_index, blurbs_json, output_file,
          pc, nodes, children_map, master_tree, clusters_output, error,
          call, sections>>

inputs == <<fieldnames, nodes_csv, edges_csv, cluster_index, blurbs_json>>

-----------------------------------------------------------------------------
(* Bounds of the model *)

\* Longest edge table drawn by Init.
MaxEdges == 3

\* Depth of nested build_tree calls at which the interpreter raises
\* RecursionError (CPython's limit, scaled down; it stays above the longest
\* acyclic path the id pool allows).
RecursionLimit == 6

\* The most rows of a node table handed to a row-marking utility.
MaxRows == 3

\* The longest raw refs cell.
MaxRefsLen == 3

-----------------------------------------------------------------------------
(* Python values and string methods *)

\* Python's None: a value different from every string over characters.
None == <<"<None>">>

Digits == {"0", "1", "2", "3", "4", "5", "6", "7", "8", "9"}

Whitespace == {" ", "\t", "\n"}

LowerOf ==
    ("A" :> "a") @@ ("B" :> "b") @@ ("C" :> "c") @@ ("D" :> "d") @@ ("E" :> "e") @@
    ("F" :> "f") @@ ("G" :> "g") @@ ("H" :> "h") @@ ("I" :> "i") @@ ("J" :> "j") @@
    ("K" :> "k") @@ ("L" :> "l") @@ ("M" :> "m") @@ ("N" :> "n") @@ ("O" :> "o") @@
    ("P" :> "p") @@ ("Q" :> "q") @@ ("R" :> "r") @@ ("S" :> "s") @@ ("T" :> "t") @@
    ("U" :> "u") @@ ("V" :> "v") @@ ("W" :> "w") @@ ("X" :> "x") @@ ("Y" :> "y") @@
    ("Z" :> "z")

\* x or y
Or(x, y) == IF x = None \/ x = <<>> THEN y ELSE x

\* d.get(key)
Get(d, key) == IF key \in DOMAIN d THEN d[key] ELSE None

\* d.get(key, default)
GetDefault(d, key, default) == IF key \in DOMAIN d THEN d[key] ELSE default

\* A faulty isdigit: some character is a digit.
isdigit_any(s) == \E i \in 1..Len(s) : s[i] \in Digits

\* str.isdigit(): at least one character, and every character a digit.
isdigit(s) == Len(s) > 0 /\ \A i \in 1..Len(s) : s[i] \in Digits

\* str.lower()
lower(s) == [i \in 1..Len(s) |-> IF s[i] \in DOMAIN LowerOf THEN LowerOf[s[i]] ELSE s[i]]

RECURSIVE lstrip(_)
lstrip(s) == IF s # <<>> /\ Head(s) \in Whitespace THEN lstrip(Tail(s)) ELSE s

RECURSIVE rstrip(_)
rstrip(s) ==
    IF s # <<>> /\ s[Len(s)] \in Whitespace THEN rstrip(SubSeq(s, 1, Len(s) - 1)) ELSE s

\* str.strip()
strip(s) == rstrip(lstrip(s))

\* str.split(sep) for a one-character separator: the pieces between
\* separators, empty pieces kept; cur is the piece being read.
RECURSIVE split_sep(_, _, _)
split_sep(s, sep, cur) ==
    IF s = <<>> THEN <<cur>>
    ELSE IF Head(s) = sep THEN <<cur>> \o split_sep(Tail(s), sep, <<>>)
    ELSE split_sep(Tail(s), sep, Append(cur, Head(s)))

\* str.split(): the maximal runs of non-whitespace characters.
RECURSIVE split_ws(_, _)
split_ws(s, cur) ==
    LET done == IF cur = <<>> THEN <<>> ELSE <<cur>>
    IN IF s = <<>> THEN done
       ELSE IF Head(s) \in Whitespace THEN done \o split_ws(Tail(s), <<>>)
       ELSE split_ws(Tail(s), Append(cur, Head(s)))

\* sep.join(parts)
RECURSIVE join(_, _)
join(sep, parts) ==
    IF parts = <<>> THEN <<>>
    ELSE IF Len(parts) = 1 THEN parts[1]
    ELSE parts[1] \o sep \o join(sep, Tail(parts))

\* A raised exception, as a value: its class and the ids of the build_tree
\* frames on the interpreter stack when it was raised.
Raise(class, stack) == [exc |-> class, traceback |-> stack]

IsExc(v) == "exc" \in DOMAIN v


-----------------------------------------------------------------------------
(* The Record Loader *)

\* parse_nodes: {row["id"]: row for row in reader}; a later row with the
\* same id replaces an earlier one.
parse_nodes(file) ==
    [id \in {file[i]["id"] : i \in 1..Len(file)} |->
        file[CHOOSE i \in 1..Len(file) :
                /\ file[i]["id"] = id
                /\ \A j \in 1..Len(file) : file[j]["id"] = id => j <= i]]

\* A faulty loop of parse_edges: a target is not listed twice for a source.
RECURSIVE parse_edges_rows_dedup(_, _, _)
parse_edges_rows_dedup(rows, valid, children) ==
    IF rows = <<>> THEN children
    ELSE LET source == Head(rows)["sourceId"]
             target == Head(rows)["targetId"]
         IN parse_edges_rows_dedup(
                Tail(rows), valid,
                IF /\ source \in valid /\ target \in valid
                   /\ \A i \in 1..Len(children[source]) : children[source][i] # target
                THEN [children EXCEPT ![source] = Append(@, target)]
                ELSE children)

\* A faulty loop of parse_edges: the target of an edge is not checked.
RECURSIVE parse_edges_rows_any_target(_, _, _)
parse_edges_rows_any_target(rows, valid, children) ==
    IF rows = <<>> THEN children
    ELSE LET source == Head(rows)["sourceId"]
             target == Head(rows)["targetId"]
         IN parse_edges_rows_any_target(
                Tail(rows), valid,
                IF source \in valid
                THEN [children EXCEPT ![source] = Append(@, target)]
                ELSE children)

\* The loop of parse_edges over the remaining rows of edges.csv.
RECURSIVE parse_edges_rows(_, _, _)
parse_edges_rows(rows, valid, children) ==
    IF rows = <<>> THEN children
    ELSE LET source == Head(rows)["sourceId"]
             target == Head(rows)["targetId"]
         IN parse_edges_rows(
                Tail(rows), valid,
                IF source \in valid /\ target \in valid
                THEN [children EXCEPT ![source] = Append(@, target)]
                ELSE children)

parse_edges(valid_ids, file) ==
    parse_edges_rows(file, valid_ids, [node_id \in valid_ids |-> <<>>])

\* A faulty parse_bool: the value is not lower-cased.
parse_bool_case_sensitive(value) ==
    IF value = None THEN "None"
    ELSE LET normalized == strip(value)
         IN IF normalized \in {<<"t", "r", "u", "e">>, <<"1">>, <<"y", "e", "s">>}
            THEN "True"
            ELSE IF normalized \in {<<"f", "a", "l", "s", "e">>, <<"0">>, <<"n", "o">>}
            THEN "False"
            ELSE "None"

\* Optional[bool] is one of "True", "False", "None".
parse_bool(value) ==
    IF value = None THEN "None"
    ELSE LET normalized == lower(strip(value))
         IN IF normalized \in {<<"t", "r", "u", "e">>, <<"1">>, <<"y", "e", "s">>}
            THEN "True"
            ELSE IF normalized \in {<<"f", "a", "l", "s", "e">>, <<"0">>, <<"n", "o">>}
            THEN "False"
            ELSE "None"

-----------------------------------------------------------------------------
(* The Tree Compiler *)

\* The empty dict.
EmptyDict == [k \in {} |-> k]

FlagKeys == {"messiahLine", "levitical", "judge"}

TriStateKeys == {"initiallyVisible", "hadCollapsedChildren"}

\* A faulty flag_fields: a flag key is set whenever its value is known.
flag_fields_known(row) ==
    [key \in {k \in FlagKeys : parse_bool(Get(row, k)) # "None"} |->
        parse_bool(Get(row, key)) = "True"]

\* build_tree, lines 71-74: a flag key is set, to True, only when truthy.
flag_fields(row) ==
    [key \in {k \in FlagKeys : parse_bool(Get(row, k)) = "True"} |-> TRUE]

\* A faulty tristate_fields: a tri-state key is set only when truthy.
tristate_fields_truthy(row) ==
    [key \in {k \in TriStateKeys : parse_bool(Get(row, k)) = "True"} |-> TRUE]

\* build_tree, lines 76-79: a tri-state key is set whenever it is not None.
tristate_fields(row) ==
    [key \in {k \in TriStateKeys : parse_bool(Get(row, k)) # "None"} |->
        parse_bool(Get(row, key)) = "True"]

\* build_tree, lines 81-87
tooltip_fields(row) ==
    LET tooltip_raw == strip(Or(Get(row, "tooltipRaw"), <<>>))
    IN IF tooltip_raw # <<>>
       THEN ("tooltipRaw" :> tooltip_raw) @@
            ("tooltip" :> join(<<" ">>, split_ws(tooltip_raw, <<>>)))
       ELSE EmptyDict

\* build_tree, lines 89-91
spouse_fields(row) ==
    LET spouse == strip(Or(Get(row, "spouse"), <<>>))
    IN IF spouse # <<>> THEN ("spouse" :> spouse) ELSE EmptyDict

\* A faulty refs_fields: empty pieces are kept.
refs_fields_keep_empty(row) ==
    LET refs == strip(Or(Get(row, "refs"), <<>>))
        pieces == split_sep(refs, ";", <<>>)
    IN IF refs # <<>>
       THEN ("refs" :> [i \in 1..Len(pieces) |-> strip(pieces[i])])
       ELSE EmptyDict

\* build_tree, lines 93-95
refs_fields(row) ==
    LET refs == strip(Or(Get(row, "refs"), <<>>))
        pieces == split_sep(refs, ";", <<>>)
        kept == SelectSeq(pieces, LAMBDA ref : strip(ref) # <<>>)
    IN IF refs # <<>>
       THEN ("refs" :> [i \in 1..Len(kept) |-> strip(kept[i])])
       ELSE EmptyDict

\* build_tree, lines 69-95: the node before its children are attached.
person_fields(node_id, row) ==
    ("id" :> node_id) @@ ("name" :> Or(Get(row, "name"), node_id)) @@
    flag_fields(row) @@ tristate_fields(row) @@ tooltip_fields(row) @@
    spouse_fields(row) @@ refs_fields(row)

\* A faulty children_field: the key is set for every node.
children_field_always(child_ids, kids) == ("children" :> kids)

\* build_tree, lines 98-99: the children key is set only for a non-empty list.
children_field(child_ids, kids) ==
    IF child_ids # <<>> THEN ("children" :> kids) ELSE EmptyDict

\* The first exception a list of results holds, in evaluation order.
FirstExc(results) ==
    results[CHOOSE i \in 1..Len(results) :
                /\ IsExc(results[i])
                /\ \A j \in 1..(i - 1) : ~IsExc(results[j])]

HasExc(results) == \E i \in 1..Len(results) : IsExc(results[i])

\* A faulty build_tree that shares instead of duplicating: a person already
\* rendered earlier in the traversal (the ids in seen) is not rendered again.
RECURSIVE render_once(_, _, _, _)
RECURSIVE render_children_once(_, _, _, _)
render_children_once(child_ids, nds, cmap, seen) ==
    IF child_ids = <<>> THEN [kids |-> <<>>, seen |-> seen]
    ELSE IF Head(child_ids) \in seen
    THEN render_children_once(Tail(child_ids), nds, cmap, seen)
    ELSE LET first == render_once(Head(child_ids), nds, cmap, seen \cup {Head(child_ids)})
             rest == render_children_once(Tail(child_ids), nds, cmap, first.seen)
         IN [kids |-> <<first.tree>> \o rest.kids, seen |-> rest.seen]

render_once(node_id, nds, cmap, seen) ==
    LET rendered == render_children_once(GetDefault(cmap, node_id, <<>>), nds, cmap, seen)
    IN [tree |-> person_fields(node_id, nds[node_id]) @@
                 children_field(rendered.kids, rendered.kids),
        seen |-> rendered.seen]

build_tree_once(node_id, nds, cmap, stack) ==
    render_once(node_id, nds, cmap, {node_id}).tree

\* A faulty build_tree: an id without a row compiles to a bare node.
RECURSIVE build_tree_lenient(_, _, _, _)
build_tree_lenient(node_id, nds, cmap, stack) ==
    IF Len(stack) >= RecursionLimit THEN Raise("RecursionError", stack)
    ELSE IF node_id \notin DOMAIN nds THEN ("id" :> node_id) @@ ("name" :> node_id)
    ELSE
    LET child_ids == GetDefault(cmap, node_id, <<>>)
        kids == [i \in 1..Len(child_ids) |->
                    build_tree_lenient(child_ids[i], nds, cmap, Append(stack, node_id))]
    IN IF HasExc(kids) THEN FirstExc(kids)
       ELSE person_fields(node_id, nds[node_id]) @@ children_field(child_ids, kids)

\* build_tree(node_id, nodes, children_map); stack holds the node ids of the
\* build_tree calls that are active when this one is made.  The result is
\* the dict returned, or the exception raised.
RECURSIVE build_tree(_, _, _, _)
build_tree(node_id, nds, cmap, stack) ==
    IF Len(stack) >= RecursionLimit THEN Raise("RecursionError", stack)
    ELSE IF node_id \notin DOMAIN nds THEN Raise("KeyError", Append(stack, node_id))
    ELSE
    LET row == nds[node_id]
        node == person_fields(node_id, row)
        child_ids == GetDefault(cmap, node_id, <<>>)
        kids == [i \in 1..Len(child_ids) |->
                    build_tree(child_ids[i], nds, cmap, Append(stack, node_id))]
    IN IF HasExc(kids) THEN FirstExc(kids)
       ELSE node @@ children_field(child_ids, kids)

\* master_root = "420"  # Adam
master_root == <<"4", "2", "0">>

MissingRootMessage ==
    <<"E", "x", "p", "e", "c", "t", "e", "d", " ", "n", "o", "d", "e", " ", "i", "d", " ",
      "4", "2", "0", " ", "(", "A", "d", "a", "m", ")", " ", "t", "o", " ",
      "e", "x", "i", "s", "t", " ", "i", "n", " ", "n", "o", "d", "e", "s", ".", "c", "s", "v">>

\* A faulty build_master_tree: the root is not checked before compiling.
build_master_tree_unchecked(nds, cmap) == build_tree(master_root, nds, cmap, <<>>)

build_master_tree(nds, cmap) ==
    IF master_root \notin DOMAIN nds
    THEN [exc |-> "RuntimeError", message |-> MissingRootMessage, traceback |-> <<>>]
    ELSE build_tree(master_root, nds, cmap, <<>>)

-----------------------------------------------------------------------------
(* The Cluster Assembler *)

\* f"{value}"
fstr(value) == IF value = None THEN <<"N", "o", "n", "e">> ELSE value

\* A faulty build_cluster_tree: every declared root is compiled, present or not.
build_cluster_tree_unfiltered(cluster_entry, nds, cmap) ==
    LET roots == GetDefault(cluster_entry, "roots", <<>>)
        root_children == [i \in 1..Len(roots) |-> build_tree(roots[i], nds, cmap, <<>>)]
    IN IF HasExc(root_children) THEN FirstExc(root_children)
       ELSE [id |-> <<"c", "l", "u", "s", "t", "e", "r", ":">> \o
                    fstr(GetDefault(cluster_entry, "slug", <<"c", "l", "u", "s", "t", "e", "r">>)),
             name |-> Or(Or(Get(cluster_entry, "title"), Get(cluster_entry, "slug")),
                         <<"C", "l", "u", "s", "t", "e", "r">>),
             children |-> root_children]

\* A faulty build_cluster_tree: the id of the root is the bare slug.
build_cluster_tree_bare_id(cluster_entry, nds, cmap) ==
    LET roots == GetDefault(cluster_entry, "roots", <<>>)
        present == SelectSeq(roots, LAMBDA root_id : root_id \in DOMAIN nds)
        root_children == [i \in 1..Len(present) |->
                             build_tree(present[i], nds, cmap, <<>>)]
    IN IF HasExc(root_children) THEN FirstExc(root_children)
       ELSE [id |-> fstr(GetDefault(cluster_entry, "slug", <<"c", "l", "u", "s", "t", "e", "r">>)),
             name |-> Or(Or(Get(cluster_entry, "title"), Get(cluster_entry, "slug")),
                         <<"C", "l", "u", "s", "t", "e", "r">>),
             children |-> root_children]

build_cluster_tree(cluster_entry, nds, cmap) ==
    LET roots == GetDefault(cluster_entry, "roots", <<>>)
        present == SelectSeq(roots, LAMBDA root_id : root_id \in DOMAIN nds)
        root_children == [i \in 1..Len(present) |->
                             build_tree(present[i], nds, cmap, <<>>)]
        title == Or(Or(Get(cluster_entry, "title"), Get(cluster_entry, "slug")),
                    <<"C", "l", "u", "s", "t", "e", "r">>)
    IN IF HasExc(root_children) THEN FirstExc(root_children)
       ELSE [id |-> <<"c", "l", "u", "s", "t", "e", "r", ":">> \o
                    fstr(GetDefault(cluster_entry, "slug", <<"c", "l", "u", "s", "t", "e", "r">>)),
             name |-> title,
             children |-> root_children]

\* A faulty cluster_section: tooltip and blurb are left out when the blurb
\* table has none.
cluster_section_sparse(entry, blurbs, nds, cmap) ==
    LET slug == Get(entry, "slug")
        tree == build_cluster_tree(entry, nds, cmap)
        meta == GetDefault(blurbs, slug, EmptyDict)
    IN IF IsExc(tree) THEN tree
       ELSE [key \in {"tooltip", "blurb"} \cap DOMAIN meta |-> meta[key]] @@
            [type |-> <<"c", "l", "u", "s", "t", "e", "r">>,
             slug |-> slug,
             title |-> Or(Get(meta, "title"), Get(entry, "title")),
             scripture |-> GetDefault(meta, "scripture", <<>>),
             tree |-> tree]

\* main, lines 153-166: the section appended for one entry of the index.
cluster_section(entry, blurbs, nds, cmap) ==
    LET slug == Get(entry, "slug")
        tree == build_cluster_tree(entry, nds, cmap)
        meta == GetDefault(blurbs, slug, EmptyDict)
    IN IF IsExc(tree) THEN tree
       ELSE [type |-> <<"c", "l", "u", "s", "t", "e", "r">>,
             slug |-> slug,
             title |-> Or(Get(meta, "title"), Get(entry, "title")),
             tooltip |-> Get(meta, "tooltip"),
             blurb |-> Get(meta, "blurb"),
             scripture |-> GetDefault(meta, "scripture", <<>>),
             tree |-> tree]

\* main, lines 168-177
output_document(tree, clusters) ==
    [generatedAt |-> <<"r", "a", "w", "-", "l", "a", "t", "e", "s", "t">>,
     master |-> [type |-> <<"m", "a", "s", "t", "e", "r">>,
                 slug |-> <<"m", "a", "s", "t", "e", "r">>,
                 title |-> <<"W", "h", "o", "l", "e", " ", "B", "i", "b", "l", "e", " ",
                            "G", "e", "n", "e", "a", "l", "o", "g", "y">>,
                 tree |-> tree],
     clusters |-> clusters]

-----------------------------------------------------------------------------
(* The row-marking utilities, scripts/mark_judges.py and *)
(* scripts/mark_messianic_line.py *)

\* mark_judges.py, lines 29-53
JUDGES ==
    {<<"A", "b", "d", "o", "n">>, <<"A", "b", "i", "m", "e", "l", "e", "c", "h">>,
     <<"B", "a", "r", "a", "k">>, <<"B", "e", "d", "a", "n">>,
     <<"D", "e", "b", "o", "r", "a", "h">>, <<"E", "h", "u", "d">>, <<"E", "l", "i">>,
     <<"E", "l", "o", "n">>, <<"G", "i", "d", "e", "o", "n">>,
     <<"I", "b", "z", "a", "n">>, <<"J", "a", "i", "r">>,
     <<"J", "e", "p", "h", "t", "h", "a", "h">>,
     <<"J", "e", "r", "u", "b", "b", "a", "a", "l">>,
     <<"O", "t", "h", "n", "i", "e", "l">>, <<"S", "a", "m", "s", "o", "n">>,
     <<"S", "a", "m", "u", "e", "l">>, <<"S", "h", "a", "m", "g", "a", "r">>,
     <<"T", "o", "l", "a">>}

\* mark_messianic_line.py, lines 27-71
MESSIANIC_LINE ==
    {<<"A", "b", "i", "j", "a", "h">>, <<"A", "b", "i", "j", "a", "m">>,
     <<"A", "b", "i", "u", "d">>, <<"A", "b", "r", "a", "h", "a", "m">>,
     <<"A", "b", "r", "a", "m">>, <<"A", "c", "h", "a", "z">>,
     <<"A", "c", "h", "i", "m">>, <<"A", "d", "a", "m">>, <<"A", "d", "d", "i">>,
     <<"A", "h", "a", "z">>, <<"A", "m", "i", "n", "a", "d", "a", "b">>,
     <<"A", "m", "m", "i", "n", "a", "d", "a", "b">>, <<"A", "m", "o", "n">>,
     <<"A", "m", "o", "s">>, <<"A", "m", "r", "a", "m">>, <<"A", "r", "a", "m">>,
     <<"A", "r", "p", "a", "c", "h", "s", "h", "a", "d">>,
     <<"A", "r", "p", "h", "a", "x", "a", "d">>, <<"A", "s", "a">>,
     <<"A", "z", "a", "r", "i", "a", "h">>, <<"A", "z", "o", "r">>,
     <<"B", "o", "a", "z">>, <<"B", "o", "o", "z">>, <<"C", "a", "i", "n", "a", "n">>,
     <<"C", "o", "n", "i", "a", "h">>, <<"C", "o", "s", "a", "m">>,
     <<"D", "a", "v", "i", "d">>, <<"E", "b", "e", "r">>,
     <<"E", "l", "e", "a", "z", "a", "r">>, <<"E", "l", "i">>,
     <<"E", "l", "i", "a", "k", "i", "m">>, <<"E", "l", "i", "e", "z", "e", "r">>,
     <<"E", "l", "i", "u", "d">>, <<"E", "l", "m", "a", "d", "a", "m">>,
     <<"E", "n", "o", "c", "h">>, <<"E", "n", "o", "s", "h">>, <<"E", "r">>,
     <<"E", "s", "r", "o", "m">>, <<"E", "z", "e", "k", "i", "a", "s">>,
     <<"H", "e", "b", "e", "r">>, <<"H", "e", "l", "i">>, <<"H", "e", "s", "l", "i">>,
     <<"H", "e", "z", "e", "k", "i", "a", "h">>, <<"H", "e", "z", "r", "o", "n">>,
     <<"I", "s", "a", "a", "c">>, <<"I", "s", "r", "a", "e", "l">>,
     <<"J", "a", "c", "o", "b">>, <<"J", "a", "n", "n", "a", "i">>,
     <<"J", "a", "r", "e", "d">>, <<"J", "e", "c", "h", "o", "n", "i", "a", "s">>,
     <<"J", "e", "c", "o", "n", "i", "a", "h">>,
     <<"J", "e", "h", "o", "i", "a", "c", "h", "i", "n">>,
     <<"J", "e", "h", "o", "r", "a", "m">>,
     <<"J", "e", "h", "o", "s", "h", "a", "p", "h", "a", "t">>,
     <<"J", "e", "s", "s", "e">>, <<"J", "e", "s", "u", "s">>,
     <<"J", "e", "s", "u", "s", " ", "C", "h", "r", "i", "s", "t">>,
     <<"J", "o", "a", "n", "a", "n">>, <<"J", "o", "a", "t", "h", "a", "m">>,
     <<"J", "o", "d", "a">>, <<"J", "o", "n", "a", "m">>, <<"J", "o", "r", "a", "m">>,
     <<"J", "o", "r", "i", "m">>, <<"J", "o", "s", "e", "c", "h">>,
     <<"J", "o", "s", "e", "p", "h">>, <<"J", "o", "s", "h", "u", "a">>,
     <<"J", "o", "s", "i", "a", "h">>, <<"J", "o", "s", "i", "a", "s">>,
     <<"J", "o", "t", "h", "a", "m">>, <<"J", "u", "d", "a">>,
     <<"J", "u", "d", "a", "h">>, <<"K", "e", "n", "a", "n">>,
     <<"L", "a", "m", "e", "c", "h">>, <<"L", "e", "v", "i">>,
     <<"M", "a", "a", "t", "h">>, <<"M", "a", "h", "a", "l", "a", "l", "e", "l">>,
     <<"M", "a", "h", "a", "l", "e", "l">>, <<"M", "a", "n", "a", "s", "s", "e", "h">>,
     <<"M", "a", "n", "a", "s", "s", "e", "s">>, <<"M", "a", "r", "y">>,
     <<"M", "a", "t", "t", "a", "t", "h", "a">>,
     <<"M", "a", "t", "t", "a", "t", "h", "i", "a", "s">>,
     <<"M", "a", "t", "t", "h", "a", "n">>, <<"M", "a", "t", "t", "h", "a", "t">>,
     <<"M", "e", "l", "c", "h", "i">>, <<"M", "e", "l", "e", "a">>,
     <<"M", "e", "n", "n", "a">>, <<"M", "e", "t", "h", "u", "s", "e", "l", "a", "h">>,
     <<"N", "a", "a", "s", "s", "o", "n">>, <<"N", "a", "g", "g", "a", "i">>,
     <<"N", "a", "h", "o", "r">>, <<"N", "a", "h", "s", "h", "o", "n">>,
     <<"N", "a", "h", "u", "m">>, <<"N", "a", "t", "h", "a", "n">>,
     <<"N", "e", "r", "i">>, <<"N", "o", "a", "h">>, <<"O", "b", "e", "d">>,
     <<"O", "z", "i", "a", "s">>, <<"P", "e", "l", "e", "g">>,
     <<"P", "e", "r", "e", "z">>, <<"P", "h", "a", "r", "e", "s">>, <<"R", "a", "m">>,
     <<"R", "e", "h", "o", "b", "o", "a", "m">>, <<"R", "e", "u">>,
     <<"R", "h", "e", "s", "a">>, <<"S", "a", "l", "a", "t", "h", "i", "e", "l">>,
     <<"S", "a", "l", "m", "a">>, <<"S", "a", "l", "m", "o", "n">>,
     <<"S", "e", "m", "e", "i", "n">>, <<"S", "e", "r", "u", "g">>,
     <<"S", "e", "t", "h">>, <<"S", "h", "e", "a", "l", "t", "i", "e", "l">>,
     <<"S", "h", "e", "l", "a", "h">>, <<"S", "h", "e", "m">>,
     <<"S", "i", "m", "e", "o", "n">>, <<"S", "o", "l", "o", "m", "o", "n">>,
     <<"T", "e", "r", "a", "h">>, <<"U", "z", "z", "i", "a", "h">>,
     <<"Y", "e", "s", "h", "u", "a">>,
     <<"Y", "e", "s", "h", "u", "a", " ", "t", "h", "e", " ", "M", "e", "s", "s", "i", "a", "h">>,
     <<"Z", "a", "d", "o", "k">>, <<"Z", "e", "r", "u", "b", "b", "a", "b", "e", "l">>,
     <<"Z", "o", "r", "o", "b", "a", "b", "e", "l">>}

\* fieldnames when there is no nodes.csv.
Missing == <<"<missing>">>

\* The key csv.DictReader files the cells beyond the header under (None).
RestKey == "<restkey>"

\* 'true'
TrueText == <<"t", "r", "u", "e">>

ColumnSet(header) == {header[i] : i \in 1..Len(header)}

\* row[key] = value
SetItem(row, key, value) ==
    [k \in DOMAIN row \cup {key} |-> IF k = key THEN value ELSE row[k]]

\* A faulty loop body: the name is compared as it is, untrimmed.
mark_row_untrimmed(row, names, column) ==
    IF GetDefault(row, "name", <<>>) \in names THEN SetItem(row, column, TrueText) ELSE row

\* A faulty loop body: a flag that is already 'true' is cleared.
mark_row_toggle(row, names, column) ==
    IF strip(GetDefault(row, "name", <<>>)) \in names
    THEN SetItem(row, column, IF Get(row, column) = TrueText THEN <<>> ELSE TrueText)
    ELSE row

\* A faulty loop body: the flag is written as 'y'.
mark_row_letter(row, names, column) ==
    IF strip(GetDefault(row, "name", <<>>)) \in names THEN SetItem(row, column, <<"y">>) ELSE row

\* update_judges, lines 72-77 (update_messianic_line, lines 89-92): the
\* body of the loop over the rows, for a row whose name is a string.
mark_row(row, names, column) ==
    IF strip(GetDefault(row, "name", <<>>)) \in names THEN SetItem(row, column, TrueText) ELSE row

\* writer.writerows(rows), line 83: the rows of the file after it, as
\* csv.DictReader reads them back, and the exception that stopped it.  A
\* row with a key that is no column raises ValueError; the rows before it
\* have been written.  None is written as the empty cell.
RECURSIVE writerows(_, _, _)
writerows(header, rows, written) ==
    IF rows = <<>> THEN [rows |-> written, exc |-> "None"]
    ELSE IF ~(DOMAIN Head(rows) \subseteq ColumnSet(header))
    THEN [rows |-> written, exc |-> "ValueError"]
    ELSE writerows(header, Tail(rows),
                   Append(written,
                          [k \in ColumnSet(header) |->
                              IF Get(Head(rows), k) = None THEN <<>> ELSE Head(rows)[k]]))

\* The body shared by update_judges (lines 57-83) and update_messianic_line
\* (lines 75-99): nodes.csv after the call, and the exception raised.
\* Reading fails with AttributeError on a row whose name cell is missing,
\* before the file is opened for writing; opening it for writing empties it.
update_csv(file, names, column) ==
    IF file.fieldnames = Missing THEN [fieldnames |-> Missing, rows |-> <<>>, exc |-> "None"]
    ELSE IF \E i \in 1..Len(file.rows) : GetDefault(file.rows[i], "name", <<>>) = None
    THEN [fieldnames |-> file.fieldnames, rows |-> file.rows, exc |-> "AttributeError"]
    ELSE LET rows == [i \in 1..Len(file.rows) |-> mark_row(file.rows[i], names, column)]
             after == writerows(file.fieldnames, rows, <<>>)
         IN [fieldnames |-> file.fieldnames, rows |-> after.rows, exc |-> after.exc]

update_judges(file) == update_csv(file, JUDGES, "judge")

update_messianic_line(file) == update_csv(file, MESSIANIC_LINE, "messiahLine")

-----------------------------------------------------------------------------
(* Input files the model draws from *)

ID420 == <<"4", "2", "0">>
ID1 == <<"1">>
ID2 == <<"2">>
ID3 == <<"3">>
\* A legend row's id: not numeric, although it holds a digit.
IDLegend == <<"L", "1">>
\* A numeric id that no node table holds.
ID9 == <<"9">>

\* One row of nodes.csv as csv.DictReader yields it: every column of the
\* header is a key; a cell the row is too short for is None.
NodeRow(id, name, messiahLine, levitical, judge, initiallyVisible, hadCollapsedChildren, tooltipRaw, spouse, refs) ==
    [id |-> id, name |-> name, messiahLine |-> messiahLine, levitical |-> levitical,
     judge |-> judge, initiallyVisible |-> initiallyVisible,
     hadCollapsedChildren |-> hadCollapsedChildren, tooltipRaw |-> tooltipRaw,
     spouse |-> spouse, refs |-> refs]

Row420 ==
    NodeRow(ID420, <<"A", "d", "a", "m">>, <<"t", "r", "u", "e">>, <<>>, <<"f", "a", "l", "s", "e">>,
            <<"t", "r", "u", "e">>, <<>>, <<" ", "a", "\n", " ", "b", " ">>, <<"E", "v", "e">>,
            <<"G", "1", ";", " ", "G", "2", ";">>)

Row1 ==
    NodeRow(ID1, <<>>, <<>>, <<"n", "o">>, <<" ", "T", "R", "U", "E">>, <<"f", "a", "l", "s", "e">>, <<"1">>,
            <<>>, <<" ", " ">>, <<";">>)

\* The line "2": too short for every column but id.
Row2 == NodeRow(ID2, None, None, None, None, None, None, None, None, None)

Row3 ==
    NodeRow(ID3, <<" ", "E", "l", "i">>, <<"Y", "E", "S">>, <<"x">>, <<>>, <<"N", "o", " ">>,
            <<"m", "a", "y", "b", "e">>, <<>>, <<>>, <<" ", "S", "1", " ">>)

RowLegend ==
    NodeRow(IDLegend, <<"K", "e", "y">>, <<>>, <<>>, <<>>, <<>>, <<>>, <<>>, <<>>, <<>>)

\* A second row for id 1, which replaces the first in parse_nodes.
Row1Again ==
    NodeRow(ID1, <<"B", "o">>, <<>>, <<>>, <<>>, <<>>, <<>>, <<>>, <<>>, <<>>)

\* A row whose id is spelled like the id of a cluster root.
RowClusterOne ==
    NodeRow(<<"c", "l", "u", "s", "t", "e", "r", ":", "1">>, <<"F", "a", "k", "e">>, <<>>, <<>>, <<>>,
            <<>>, <<>>, <<>>, <<>>, <<>>)

FullTable == <<Row420, Row1, Row2, Row3, RowLegend>>

RowsWithIdIn(ids) == SelectSeq(FullTable, LAMBDA row : row["id"] \in ids)

NodeTables ==
    {RowsWithIdIn(ids) : ids \in {{ID420, ID1, ID2, ID3, IDLegend},
                                  {ID1, ID2, ID3, IDLegend},
                                  {ID420, ID1, ID3, IDLegend},
                                  {ID420, ID1, ID2, ID3},
                                  {ID420},
                                  {IDLegend},
                                  {}}}
    \cup {<<Row420, Row1, Row3, RowClusterOne>>}
    \cup {FullTable \o <<Row1Again>>}

Edge(source, target) == [sourceId |-> source, targetId |-> target]

\* The rows an edge table of the graph family is made of: a diamond below
\* 420, a diamond below the roots 1 and 2, a two-cycle, a self-loop, and
\* rows that name the legend id.
EdgePool ==
    {Edge(ID420, ID1), Edge(ID420, ID2), Edge(ID1, ID2), Edge(ID2, ID1), Edge(ID1, ID1),
     Edge(ID1, ID3), Edge(ID2, ID3), Edge(ID3, ID420), Edge(ID420, IDLegend),
     Edge(IDLegend, ID2)}

RECURSIVE SeqsUpTo(_, _)
SeqsUpTo(S, n) ==
    IF n = 0 THEN {<<>>}
    ELSE LET shorter == SeqsUpTo(S, n - 1)
         IN shorter \cup {Append(q, x) : q \in shorter, x \in S}

EdgeTables == SeqsUpTo(EdgePool, MaxEdges)

FixedEdgeTables ==
    {<<>>,
     <<Edge(ID420, ID1), Edge(ID420, ID2), Edge(ID1, ID2), Edge(ID3, IDLegend),
       Edge(ID2, ID3)>>,
     <<Edge(ID420, ID2), Edge(ID420, ID1), Edge(ID420, ID2), Edge(IDLegend, ID2),
       Edge(ID2, ID3)>>,
     <<Edge(ID420, ID3), Edge(ID1, ID2), Edge(ID2, ID1)>>}

SlugJ == <<"j">>
SlugK == <<"k">>

IndexA ==
    <<[slug |-> SlugJ, title |-> <<"J", "u", "d">>, roots |-> <<ID1, ID9, ID2>>],
      [slug |-> SlugK, title |-> <<>>, roots |-> <<ID3, IDLegend>>]>>

IndexB ==
    <<[title |-> <<"T">>],
      [slug |-> SlugJ, roots |-> <<ID2, ID2, ID420>>],
      [slug |-> None, title |-> None, roots |-> <<ID9>>]>>

\* Neither slugs nor titles are in sorted order; one slug is a person id.
IndexC ==
    <<[slug |-> SlugK, title |-> <<"B">>, roots |-> <<ID3>>],
      [slug |-> ID1, title |-> <<"A">>, roots |-> <<>>],
      [slug |-> SlugJ, title |-> <<"C">>, roots |-> <<ID9>>]>>

ClusterIndexes == {IndexA, IndexB, IndexC, <<>>}

BlurbsA ==
    (SlugJ :> [title |-> <<"J", "J">>, tooltip |-> <<"t", "t">>, blurb |-> <<"b", "b">>,
               scripture |-> <<<<"J", "d", "g", " ", "2">>>>]) @@
    (SlugK :> [blurb |-> <<"k", "k">>])

BlurbTables == {BlurbsA, EmptyDict}

\* The columns of nodes.csv, in header order.
Columns ==
    <<"id", "name", "messiahLine", "levitical", "judge", "initiallyVisible",
      "hadCollapsedChildren", "tooltipRaw", "spouse", "refs">>

\* The row csv.DictReader yields for a line that holds only the first n
\* cells of row: the columns after them are None.
ShortRow(row, n) ==
    [key \in DOMAIN row |->
        IF \E i \in 1..n : Columns[i] = key THEN row[key] ELSE None]

\* Raw cells of a boolean-like column.
RawBools ==
    {<<>>, <<"t", "r", "u", "e">>, <<" ", "Y", "e", "s">>, <<"f", "a", "l", "s", "e">>,
     <<"0">>, <<"x">>}

\* Raw values handed to parse_bool: a word between leading and trailing
\* whitespace, and None.
BoolWords ==
    {<<"t", "r", "u", "e">>, <<"T", "R", "U", "E">>, <<"T", "r", "u", "e">>,
     <<"t", "R", "u", "E">>, <<"1">>, <<"y", "e", "s">>, <<"Y", "E", "S">>,
     <<"Y", "e", "s">>, <<"f", "a", "l", "s", "e">>, <<"F", "A", "L", "S", "E">>,
     <<"F", "a", "l", "s", "e">>, <<"0">>, <<"n", "o">>, <<"N", "O">>, <<"N", "o">>,
     <<>>, <<"x">>, <<"t", "r", "u">>, <<"t", "r", "u", "e", "e">>, <<"2">>, <<"y">>,
     <<"n">>, <<"o", "n">>, <<"0", "1">>, <<"t", " ", "r", "u", "e">>,
     <<"n", "\t", "o">>}

BoolPool ==
    {lead \o word \o trail : lead \in {<<>>, <<" ">>, <<"\t">>}, word \in BoolWords,
                             trail \in {<<>>, <<" ">>, <<"\n">>}}
    \cup {None}

\* Raw cells of the refs column: every string of at most MaxRefsLen of these
\* characters, and None for a line that ends before the column.
RefsChars == {";", " ", "G", "1"}

RawRefs == UNION {[1..n -> RefsChars] : n \in 0..MaxRefsLen} \cup {None}

\* Ids build_tree is called with: rows of the node table, the id of a row
\* the loader drops, an id of no row, and the empty id.
RootPool == {ID420, ID1, IDLegend, ID9, <<>>}

\* Rows for the row-marking utilities: a judge whose flag says 'false' and
\* whose name has a trailing blank, a row that is no judge and in no line
\* but is flagged, and lines that are too short or too long.
ID5 == <<"5">>
ID6 == <<"6">>

RowSamson ==
    NodeRow(ID5, <<"S", "a", "m", "s", "o", "n", " ">>, <<>>, <<>>, <<"f", "a", "l", "s", "e">>,
            <<>>, <<>>, <<>>, <<>>, <<"J", "d", "g", " ", "1", "3">>)

RowSaul ==
    NodeRow(ID6, <<"S", "a", "u", "l">>, <<"y", "e", "s">>, <<>>, <<"t", "r", "u", "e">>,
            <<>>, <<>>, <<>>, <<>>, <<>>)

\* The line "5,Samson ": it ends after the name.
RowSamsonShort == ShortRow(RowSamson, 2)

\* A line with two cells more than the header has columns.
RowLegendLong == RowLegend @@ (RestKey :> <<<<"x">>, <<>>>>)

MarkRows == {Row420, Row2, Row3, RowLegend, RowSamson, RowSaul, RowSamsonShort, RowLegendLong}

\* Headers of nodes.csv: all columns, and one or two columns missing.
Without(header, dropped) == SelectSeq(header, LAMBDA column : column \notin dropped)

Headers ==
    {Without(Columns, dropped) :
        dropped \in {{}, {"judge"}, {"messiahLine"}, {"judge", "messiahLine"}, {"name"}}}

\* The row csv.DictReader yields for the line of row under header.
UnderHeader(row, header) ==
    [k \in DOMAIN row \cap (ColumnSet(header) \cup {RestKey}) |-> row[k]]

\* nodes.csv files: no file, and up to MaxRows lines under each header.
MarkFiles ==
    {[fieldnames |-> Missing, rows |-> <<>>]} \cup
    {[fieldnames |-> header, rows |-> [i \in 1..Len(rows) |-> UnderHeader(rows[i], header)]] :
        header \in Headers, rows \in SeqsUpTo(MarkRows, MaxRows)}

\* What bible-tree.json holds before the run: an earlier run's document.
PreviousOutput == [generatedAt |-> <<"o", "l", "d">>]

-----------------------------------------------------------------------------
(* main() *)

NoError == [exc |-> "None"]

\* No function has been called directly.
NoCall == [fn |-> "None"]

\* Locals of main that are not bound yet.
Unbound == [unbound |-> TRUE]

MainStarts ==
    /\ output_file = PreviousOutput
    /\ pc = "start"
    /\ nodes = Unbound
    /\ children_map = Unbound
    /\ master_tree = Unbound
    /\ clusters_output = <<>>
    /\ error = NoError
    /\ call = NoCall
    /\ sections = EmptyDict

\* Edge tables of every shape over a full node table.
InitGraph ==
    /\ fieldnames = Columns
    /\ nodes_csv = FullTable
    /\ edges_csv \in EdgeTables
    /\ cluster_index = IndexA
    /\ blurbs_json = BlurbsA

\* Node tables, cluster indexes and blurb tables of every shape.
InitTables ==
    /\ fieldnames = Columns
    /\ nodes_csv \in NodeTables
    /\ edges_csv \in FixedEdgeTables
    /\ cluster_index \in ClusterIndexes
    /\ blurbs_json \in BlurbTables

Init == (InitGraph \/ InitTables) /\ MainStarts

\* Every raw cell in every boolean-like column of the row of person 420,
\* and every length of that row's line up to the last of those columns.
InitAttr ==
    /\ fieldnames = Columns
    /\ \E messiahLine \in RawBools, levitical \in RawBools, judge \in RawBools,
          initiallyVisible \in RawBools, hadCollapsedChildren \in RawBools,
          n \in 2..(Len(Columns) - 3) :
          nodes_csv = <<ShortRow(NodeRow(ID420, <<"A", "d", "a", "m">>, messiahLine,
                                         levitical, judge, initiallyVisible,
                                         hadCollapsedChildren, <<>>, <<>>, <<>>), n),
                        Row1>>
    /\ edges_csv = <<Edge(ID420, ID1)>>
    /\ cluster_index = IndexA
    /\ blurbs_json = BlurbsA
    /\ MainStarts

\* main, lines 138-143
Load ==
    /\ pc = "start"
    /\ LET nodes_raw == parse_nodes(nodes_csv)
           numeric_ids == {node_id \in DOMAIN nodes_raw : isdigit(node_id)}
       IN /\ children_map' = parse_edges(numeric_ids, edges_csv)
          /\ nodes' = [node_id \in numeric_ids |-> nodes_raw[node_id]]
    /\ pc' = "master"
    /\ UNCHANGED <<inputs, call, sections, output_file, master_tree, clusters_output, error>>

\* main, line 145
BuildMaster ==
    /\ pc = "master"
    /\ LET tree == build_master_tree(nodes, children_map)
       IN IF IsExc(tree)
          THEN /\ error' = tree
               /\ pc' = "failed"
               /\ UNCHANGED master_tree
          ELSE /\ master_tree' = tree
               /\ pc' = "clusters"
               /\ UNCHANGED error
    /\ UNCHANGED <<inputs, call, sections, output_file, nodes, children_map, clusters_output>>

\* A faulty loop body: compiling a cluster drops the adjacency of its roots.
BuildCluster_popping ==
    /\ pc = "clusters"
    /\ Len(clusters_output) < Len(cluster_index)
    /\ LET entry == cluster_index[Len(clusters_output) + 1]
           section == cluster_section(entry, blurbs_json, nodes, children_map)
           declared == GetDefault(entry, "roots", <<>>)
           roots == {declared[k] : k \in 1..Len(declared)}
       IN /\ children_map' = [k \in DOMAIN children_map \ roots |-> children_map[k]]
          /\ IF IsExc(section)
             THEN /\ error' = section
                  /\ pc' = "failed"
                  /\ UNCHANGED clusters_output
             ELSE /\ clusters_output' = Append(clusters_output, section)
                  /\ UNCHANGED <<pc, error>>
    /\ UNCHANGED <<inputs, call, sections, output_file, nodes, master_tree>>

\* A faulty loop body: the rows of the compiled roots are taken out of nodes.
BuildCluster_consuming ==
    /\ pc = "clusters"
    /\ Len(clusters_output) < Len(cluster_index)
    /\ LET entry == cluster_index[Len(clusters_output) + 1]
           section == cluster_section(entry, blurbs_json, nodes, children_map)
           declared == GetDefault(entry, "roots", <<>>)
           roots == {declared[k] : k \in 1..Len(declared)}
       IN /\ nodes' = [k \in DOMAIN nodes \ roots |-> nodes[k]]
          /\ IF IsExc(section)
             THEN /\ error' = section
                  /\ pc' = "failed"
                  /\ UNCHANGED clusters_output
             ELSE /\ clusters_output' = Append(clusters_output, section)
                  /\ UNCHANGED <<pc, error>>
    /\ UNCHANGED <<inputs, call, sections, output_file, children_map, master_tree>>

\* A faulty loop body: the document is rewritten after every cluster.
BuildCluster_flushing ==
    /\ pc = "clusters"
    /\ Len(clusters_output) < Len(cluster_index)
    /\ LET entry == cluster_index[Len(clusters_output) + 1]
           section == cluster_section(entry, blurbs_json, nodes, children_map)
       IN IF IsExc(section)
          THEN /\ error' = section
               /\ pc' = "failed"
               /\ UNCHANGED <<clusters_output, output_file>>
          ELSE /\ clusters_output' = Append(clusters_output, section)
               /\ output_file' = output_document(master_tree, clusters_output')
               /\ UNCHANGED <<pc, error>>
    /\ UNCHANGED <<inputs, call, sections, nodes, children_map, master_tree>>

\* A faulty loop body: the section is put in front of the list.
BuildCluster_prepend ==
    /\ pc = "clusters"
    /\ Len(clusters_output) < Len(cluster_index)
    /\ LET entry == cluster_index[Len(clusters_output) + 1]
           section == cluster_section(entry, blurbs_json, nodes, children_map)
       IN IF IsExc(section)
          THEN /\ error' = section
               /\ pc' = "failed"
               /\ UNCHANGED clusters_output
          ELSE /\ clusters_output' = <<section>> \o clusters_output
               /\ UNCHANGED <<pc, error>>
    /\ UNCHANGED <<inputs, call, sections, output_file, nodes, children_map, master_tree>>

\* main, lines 152-166: one iteration of the loop over cluster_index
BuildCluster ==
    /\ pc = "clusters"
    /\ Len(clusters_output) < Len(cluster_index)
    /\ LET entry == cluster_index[Len(clusters_output) + 1]
           section == cluster_section(entry, blurbs_json, nodes, children_map)
       IN IF IsExc(section)
          THEN /\ error' = section
               /\ pc' = "failed"
               /\ UNCHANGED clusters_output
          ELSE /\ clusters_output' = Append(clusters_output, section)
               /\ UNCHANGED <<pc, error>>
    /\ UNCHANGED <<inputs, call, sections, output_file, nodes, children_map, master_tree>>

\* main, lines 168-181: after the loop
WriteOutput ==
    /\ pc = "clusters"
    /\ Len(clusters_output) = Len(cluster_index)
    /\ output_file' = output_document(master_tree, clusters_output)
    /\ pc' = "done"
    /\ UNCHANGED <<inputs, call, sections, nodes, children_map, master_tree, clusters_output, error>>

\* A direct call parse_bool(value)
CallParseBool ==
    /\ \E value \in BoolPool :
          call' = [fn |-> "parse_bool", arg |-> value, result |-> parse_bool(value)]
    /\ UNCHANGED <<inputs, sections, output_file, pc, nodes, children_map, master_tree,
                   clusters_output, error>>

\* A direct call build_tree(root, nodes, children_map) on the loaded tables
CallBuildTree ==
    /\ pc = "master"
    /\ \E root \in RootPool :
          call' = [fn |-> "build_tree", arg |-> root,
                   result |-> build_tree(root, nodes, children_map, <<>>)]
    /\ UNCHANGED <<inputs, sections, output_file, pc, nodes, children_map, master_tree,
                   clusters_output, error>>

\* The body of the loop of main (lines 153-166) run by a worker for an
\* entry of its choice: the section, or the exception raised, is kept
\* under the entry's index.
BuildClusterAny ==
    /\ pc \in {"clusters", "done", "failed"}
    /\ master_tree # Unbound
    /\ \E i \in (1..Len(cluster_index)) \ DOMAIN sections :
          LET section == cluster_section(cluster_index[i], blurbs_json, nodes, children_map)
          IN /\ sections' = sections @@ (i :> section)
             /\ call' = [fn |-> "cluster_section", arg |-> i, result |-> section]
    /\ UNCHANGED <<inputs, output_file, pc, nodes, children_map, master_tree,
                   clusters_output, error>>

\* nodes.csv as the utilities see it.
NodesFile == [fieldnames |-> fieldnames, rows |-> nodes_csv]

\* The utilities that have returned without an exception so far.
Completed == IF "completed" \in DOMAIN call THEN call["completed"] ELSE {}

\* A run of a row-marking utility, before the generator starts.
RunUtility(fn, after) ==
    /\ pc = "start"
    /\ fieldnames' = after.fieldnames
    /\ nodes_csv' = after.rows
    /\ call' = [fn |-> fn, arg |-> NodesFile, result |-> after.exc,
                completed |-> IF after.exc = "None" THEN Completed \cup {fn} ELSE Completed]
    /\ UNCHANGED <<edges_csv, cluster_index, blurbs_json, sections, output_file, pc, nodes,
                   children_map, master_tree, clusters_output, error>>

\* python3 scripts/mark_judges.py
UpdateJudges == RunUtility("update_judges", update_judges(NodesFile))

\* python3 scripts/mark_messianic_line.py
UpdateMessianicLine == RunUtility("update_messianic_line", update_messianic_line(NodesFile))

Next == Load \/ BuildMaster \/ BuildCluster \/ WriteOutput

Spec == Init /\ [][Next]_vars

SpecAttr == InitAttr /\ [][Next]_vars

-----------------------------------------------------------------------------
(* Vocabulary of the properties *)

\* The numeric ids among the ids the model draws from.
NumericPool == {ID420, ID1, ID2, ID3, ID9}

\* The ids of the Person table the node table should load as.
PersonIds == {nodes_csv[i]["id"] : i \in 1..Len(nodes_csv)} \cap NumericPool

Loaded == pc # "start"

Children(n) == IF "children" \in DOMAIN n THEN n["children"] ELSE <<>>

ChildIds(n) == [i \in 1..Len(Children(n)) |-> Children(n)[i]["id"]]

\* The TreeNodes of a tree, the root included.
RECURSIVE TreeNodes(_)
TreeNodes(t) ==
    {t} \cup UNION {TreeNodes(Children(t)[i]) : i \in 1..Len(Children(t))}

\* Each TreeNode of a tree with the ids of its ancestors, root first.
RECURSIVE NodesBelow(_, _)
NodesBelow(t, ancestors) ==
    {[node |-> t, ancestors |-> ancestors]} \cup
    UNION {NodesBelow(Children(t)[i], Append(ancestors, t["id"])) :
              i \in 1..Len(Children(t))}

\* The trees the run has compiled so far: the master tree and the tree of
\* every cluster section.
CompiledTrees ==
    (IF master_tree = Unbound THEN {} ELSE {master_tree}) \cup
    {clusters_output[i]["tree"] : i \in 1..Len(clusters_output)}

\* The trees compiled by build_tree: the master tree and the top-level
\* children of every cluster tree.
PersonTrees ==
    (IF master_tree = Unbound THEN {} ELSE {master_tree}) \cup
    UNION {{clusters_output[i]["tree"]["children"][j] :
               j \in 1..Len(clusters_output[i]["tree"]["children"])} :
              i \in 1..Len(clusters_output)}

\* Every TreeNode rendered for a Person.
PersonNodes == UNION {TreeNodes(t) : t \in PersonTrees}

Range(f) == {f[x] : x \in DOMAIN f}

Contains(s, sub) ==
    \E i \in 1..(Len(s) - Len(sub) + 1) : SubSeq(s, i, i + Len(sub) - 1) = sub

\* The targetIds of the rows of edges.csv whose sourceId is id, both ends
\* being Person ids, in row order.
EdgeTargets(id) ==
    LET rows == SelectSeq(edges_csv,
                          LAMBDA e : /\ e["sourceId"] = id
                                     /\ e["sourceId"] \in PersonIds
                                     /\ e["targetId"] \in PersonIds)
    IN [i \in 1..Len(rows) |-> rows[i]["targetId"]]

-----------------------------------------------------------------------------
(* Properties *)

\* C1: compiling over an edge relation that holds a cycle terminates and
\* returns a tree: no run ends in the interpreter's RecursionError.
C1_CycleTerminates == ~(pc = "failed" /\ error["exc"] = "RecursionError")

\* C2: the compiler never recurses into an id that is already on the active
\* recursion path (no id occurs twice among the active build_tree frames),
\* and in every compiled tree a node whose id is the id of one of its
\* ancestors is a leaf.
C2_CycleGuard ==
    /\ pc = "failed" =>
          \A i, j \in 1..Len(error["traceback"]) :
              error["traceback"][i] = error["traceback"][j] => i = j
    /\ \A t \in CompiledTrees : \A e \in NodesBelow(t, <<>>) :
          e.node["id"] \in Range(e.ancestors) => "children" \notin DOMAIN e.node


\* C3: the ids of the children of every TreeNode are the targetIds of the
\* rows of edges.csv whose sourceId is the node's id and whose two ends are
\* Person ids, in row order, a repeated row giving a repeated child.
C3_ChildOrder == \A n \in PersonNodes : ChildIds(n) = EdgeTargets(n["id"])

\* A compiled node with a repeated child around another child, compiled
\* from an edge table that also holds a row dropped by the loader.
C3_Witness ==
    /\ pc = "done"
    /\ \E n \in PersonNodes :
          /\ Len(ChildIds(n)) >= 3
          /\ ChildIds(n)[1] = ChildIds(n)[3]
          /\ ChildIds(n)[1] # ChildIds(n)[2]
    /\ \E i \in 1..Len(edges_csv) : edges_csv[i]["sourceId"] \notin PersonIds

\* Two distinct parents in one compiled tree that both list child c.
SharedChild(t, p1, p2, c) ==
    /\ p1 \in TreeNodes(t) /\ p2 \in TreeNodes(t)
    /\ p1["id"] # p2["id"]
    /\ c \in Range(GetDefault(children_map, p1["id"], <<>>))
    /\ c \in Range(GetDefault(children_map, p2["id"], <<>>))

\* C4: when two distinct parents of a compiled tree both list child c, each
\* has a subtree for c, and all these subtrees are equal.
C4_Duplication ==
    \A t \in CompiledTrees : \A p1, p2 \in TreeNodes(t) :
        \A c \in Range(GetDefault(children_map, p1["id"], <<>>)) :
            SharedChild(t, p1, p2, c) =>
                /\ \E k1 \in Range(Children(p1)) : k1["id"] = c
                /\ \E k2 \in Range(Children(p2)) : k2["id"] = c
                /\ \A k1 \in Range(Children(p1)), k2 \in Range(Children(p2)) :
                      (k1["id"] = c /\ k2["id"] = c) => k1 = k2

\* A written document whose master tree holds a shared child that has
\* children of its own, at two different depths.
C4_Witness ==
    /\ pc = "done"
    /\ \E p2 \in TreeNodes(master_tree) :
          \E k1 \in Range(Children(master_tree)), k2 \in Range(Children(p2)) :
              /\ SharedChild(master_tree, master_tree, p2, k1["id"])
              /\ p2 \in Range(Children(master_tree))
              /\ k1 = k2
              /\ "children" \in DOMAIN k1

\* C5: when the node table has no numeric-id row for the master root, the
\* run ends in a RuntimeError whose message names 420, with no master
\* tree, no cluster compiled and the output document untouched.
C5_MissingMasterRoot ==
    (master_root \notin PersonIds /\ pc \notin {"start", "master"}) =>
        /\ pc = "failed"
        /\ error["exc"] = "RuntimeError"
        /\ Contains(error["message"], master_root)
        /\ master_tree = Unbound
        /\ clusters_output = <<>>
        /\ output_file = PreviousOutput

\* A run that failed on the missing root although other persons and
\* clusters were there to compile.
C5_Witness ==
    /\ pc = "failed"
    /\ master_root \notin PersonIds
    /\ PersonIds # {}
    /\ cluster_index # <<>>

\* The declared roots of a cluster entry that are Person ids, in order.
PresentRoots(entry) ==
    SelectSeq(GetDefault(entry, "roots", <<>>), LAMBDA r : r \in PersonIds)

\* C6: the top-level children of every cluster tree are the compiled
\* subtrees of the declared roots that are in the Person table, in declared
\* order, and an absent root never fails the run.
C6_ClusterRootFilter ==
    /\ \A i \in 1..Len(clusters_output) :
          LET kids == clusters_output[i]["tree"]["children"]
              expected == PresentRoots(cluster_index[i])
          IN /\ Len(kids) = Len(expected)
             /\ \A j \in 1..Len(kids) :
                   /\ kids[j]["id"] = expected[j]
                   /\ kids[j] = build_tree(expected[j], nodes, children_map, <<>>)
    /\ pc = "failed" => error["exc"] # "KeyError"

\* A written document with a cluster that declares three roots, one of
\* them in no row of the node table, and a cluster that declares two
\* roots, one of them the id of a legend row.
C6_Witness ==
    /\ pc = "done"
    /\ \E i \in 1..Len(clusters_output) :
          /\ Len(GetDefault(cluster_index[i], "roots", <<>>)) = 3
          /\ Len(clusters_output[i]["tree"]["children"]) = 2
          /\ cluster_index[i]["roots"][2] \notin PersonIds
    /\ \E i \in 1..Len(clusters_output) :
          /\ Len(GetDefault(cluster_index[i], "roots", <<>>)) = 2
          /\ Len(clusters_output[i]["tree"]["children"]) = 1
          /\ cluster_index[i]["roots"][2] = IDLegend

\* C7: the Person table holds exactly the node rows with a numeric id (the
\* last such row for each id), the adjacency index has an entry for exactly
\* those ids, and an edge row is in the index only when both its ends are
\* Person ids.
C7_LoaderFilter ==
    Loaded =>
        /\ DOMAIN nodes = PersonIds
        /\ \A i \in 1..Len(nodes_csv) :
              LET id == nodes_csv[i]["id"]
              IN (/\ id \in NumericPool
                  /\ \A j \in (i + 1)..Len(nodes_csv) : nodes_csv[j]["id"] # id)
                 => nodes[id] = nodes_csv[i]
        /\ DOMAIN children_map = PersonIds
        /\ \A id \in DOMAIN children_map :
              /\ Range(children_map[id]) \subseteq PersonIds
              /\ children_map[id] = EdgeTargets(id)

\* Tables loaded from a node table with a legend row and an edge table
\* with a legend source, a legend target and an edge that is kept.
C7_Witness ==
    /\ pc = "master"
    /\ \E i \in 1..Len(nodes_csv) : nodes_csv[i]["id"] = IDLegend
    /\ \E i \in 1..Len(edges_csv) : edges_csv[i]["sourceId"] = IDLegend
    /\ \E i \in 1..Len(edges_csv) :
          edges_csv[i]["targetId"] = IDLegend /\ edges_csv[i]["sourceId"] \in PersonIds
    /\ \E id \in DOMAIN children_map : children_map[id] # <<>>

\* C8: a Person with an empty adjacency list compiles to a TreeNode with no
\* children key, and no Person node holds an empty children list.
C8_LeafCompactness ==
    \A n \in PersonNodes :
        /\ GetDefault(children_map, n["id"], <<>>) = <<>> => "children" \notin DOMAIN n
        /\ "children" \in DOMAIN n => n["children"] # <<>>

\* A written document with a leaf below an inner node.
C8_Witness ==
    /\ pc = "done"
    /\ \E n \in PersonNodes : "children" \in DOMAIN n
    /\ \E n \in PersonNodes :
          children_map[n["id"]] = <<>> /\ "children" \notin DOMAIN n

\* The row of the Person table a TreeNode was rendered from.
SourceRow(n) == nodes[n["id"]]

\* C9: in every Person node each of messiahLine, levitical and judge is
\* present exactly when the row's cell parses to true, and then is TRUE; no
\* node of a compiled tree holds one of these keys with another value.
C9_FlagPresence ==
    /\ \A n \in PersonNodes : \A key \in FlagKeys :
          /\ key \in DOMAIN n <=> parse_bool(Get(SourceRow(n), key)) = "True"
          /\ key \in DOMAIN n => n[key] = TRUE
    /\ \A t \in CompiledTrees : \A n \in TreeNodes(t) : \A key \in FlagKeys :
          key \in DOMAIN n => n[key] = TRUE

\* A master tree whose root has judge set, levitical explicitly false in the
\* row and so absent, and messiahLine unknown and absent.
C9_Witness ==
    /\ master_tree # Unbound
    /\ "judge" \in DOMAIN master_tree
    /\ parse_bool(Get(SourceRow(master_tree), "levitical")) = "False"
    /\ "levitical" \notin DOMAIN master_tree
    /\ parse_bool(Get(SourceRow(master_tree), "messiahLine")) = "None"
    /\ "messiahLine" \notin DOMAIN master_tree

\* C10: in every Person node each of initiallyVisible and
\* hadCollapsedChildren is present exactly when the row's cell parses to a
\* known boolean, and then holds that boolean.
C10_TriState ==
    \A n \in PersonNodes : \A key \in TriStateKeys :
        LET parsed == parse_bool(Get(SourceRow(n), key))
        IN /\ key \in DOMAIN n <=> parsed # "None"
           /\ key \in DOMAIN n => n[key] = (parsed = "True")

\* The scenario of the specification: judge "true" and initiallyVisible
\* "false" give judge TRUE and initiallyVisible FALSE, with
\* hadCollapsedChildren unknown and absent.
C10_Witness ==
    /\ master_tree # Unbound
    /\ SourceRow(master_tree)["judge"] = <<"t", "r", "u", "e">>
    /\ SourceRow(master_tree)["initiallyVisible"] = <<"f", "a", "l", "s", "e">>
    /\ master_tree["judge"] = TRUE
    /\ master_tree["initiallyVisible"] = FALSE
    /\ "hadCollapsedChildren" \notin DOMAIN master_tree

\* parse_bool called on every raw value of the pool.
InitParseBool ==
    /\ fieldnames = Columns
    /\ nodes_csv = FullTable
    /\ edges_csv = <<>>
    /\ cluster_index = IndexA
    /\ blurbs_json = BlurbsA
    /\ MainStarts

SpecParseBool == InitParseBool /\ [][CallParseBool]_vars

TrueWords == {<<"t", "r", "u", "e">>, <<"1">>, <<"y", "e", "s">>}

FalseWords == {<<"f", "a", "l", "s", "e">>, <<"0">>, <<"n", "o">>}

\* s is the lower-case word w up to the case of its letters.
SameIgnoringCase(s, w) ==
    /\ Len(s) = Len(w)
    /\ \A k \in 1..Len(w) :
          s[k] = w[k] \/ (s[k] \in DOMAIN LowerOf /\ LowerOf[s[k]] = w[k])

\* value is one of words, up to case, between runs of whitespace.
WordInWhitespace(value, words) ==
    /\ value # None
    /\ \E i, j \in 1..Len(value) :
          /\ \E w \in words : SameIgnoringCase(SubSeq(value, i, j), w)
          /\ \A k \in 1..Len(value) : (k < i \/ k > j) => value[k] \in Whitespace

ParseBoolCalled == call["fn"] = "parse_bool"

\* C11, as stated: parse_bool returns true exactly for "true"/"1"/"yes" up
\* to case, false exactly for "false"/"0"/"no" up to case, and unknown for
\* every other value.
C11_ThreeWayExact ==
    ParseBoolCalled =>
        call["result"] =
            IF call["arg"] # None /\ \E w \in TrueWords : SameIgnoringCase(call["arg"], w)
            THEN "True"
            ELSE IF call["arg"] # None
                    /\ \E w \in FalseWords : SameIgnoringCase(call["arg"], w)
            THEN "False"
            ELSE "None"

\* C11, amended: parse_bool returns true exactly for "true"/"1"/"yes" up to
\* case and surrounding whitespace, false exactly for "false"/"0"/"no" up to
\* case and surrounding whitespace, and unknown for every other value, the
\* empty string and None included; it returns one of the three for every
\* value.
C11_ThreeWay ==
    ParseBoolCalled =>
        call["result"] =
            IF WordInWhitespace(call["arg"], TrueWords) THEN "True"
            ELSE IF WordInWhitespace(call["arg"], FalseWords) THEN "False"
            ELSE "None"

\* parse_bool has returned false for an upper-case word with whitespace on
\* both sides.
C11_Witness ==
    /\ ParseBoolCalled
    /\ call["result"] = "False"
    /\ call["arg"] = <<" ", "N", "O", "\n">>

-----------------------------------------------------------------------------
\* build_tree called on loaded tables, for every raw refs cell of row 420.
InitBuildTree ==
    /\ fieldnames = Columns
    /\ nodes_csv \in {<<[Row420 EXCEPT !["refs"] = raw], Row1, RowLegend>> : raw \in RawRefs}
    /\ edges_csv = <<Edge(ID420, ID1), Edge(ID1, IDLegend)>>
    /\ cluster_index = IndexA
    /\ blurbs_json = BlurbsA
    /\ MainStarts

SpecBuildTree == InitBuildTree /\ [][Load \/ CallBuildTree]_vars

BuildTreeCalled == call["fn"] = "build_tree"

\* C12: build_tree called with a root id that has no row in the Person
\* table raises to its caller (a KeyError for that id, from the outermost
\* call); it returns no node for that id.
C12_UnknownRoot ==
    (BuildTreeCalled /\ call["arg"] \notin DOMAIN nodes) =>
        /\ IsExc(call["result"])
        /\ call["result"]["exc"] = "KeyError"
        /\ call["result"]["traceback"] = <<call["arg"]>>
        /\ "id" \notin DOMAIN call["result"]

\* build_tree was called with the id of a row of nodes.csv that the loader
\* dropped, and with an id of no row at all.
C12_Witness ==
    /\ BuildTreeCalled
    /\ call["arg"] = IDLegend
    /\ \E i \in 1..Len(nodes_csv) : nodes_csv[i]["id"] = IDLegend
    /\ IDLegend \notin DOMAIN nodes
    /\ IsExc(call["result"])

-----------------------------------------------------------------------------
\* C13: in every cluster section, the name of the synthetic cluster root is
\* the title reported in that section (the blurb title when there is one,
\* otherwise the title of the cluster definition).
C13_RootName ==
    \A i \in 1..Len(clusters_output) :
        clusters_output[i]["tree"]["name"] = clusters_output[i]["title"]

-----------------------------------------------------------------------------
Done == pc = "done"

\* C14: the clusters list of the written document has one section per entry
\* of the cluster index, in the order of the index: section i has the slug
\* of entry i (None when the entry has none), whatever the slugs, the titles
\* and the number of roots that were compiled.
C14_ClusterOrder ==
    Done =>
        /\ Len(output_file["clusters"]) = Len(cluster_index)
        /\ \A i \in 1..Len(cluster_index) :
              output_file["clusters"][i]["slug"] = Get(cluster_index[i], "slug")

\* A document was written for an index whose slugs and titles are out of
\* order and whose second cluster has no root.
C14_Witness ==
    /\ Done
    /\ cluster_index = IndexC
    /\ [i \in 1..3 |-> output_file["clusters"][i]["slug"]] = <<SlugK, ID1, SlugJ>>
    /\ output_file["clusters"][2]["tree"]["children"] = <<>>

-----------------------------------------------------------------------------
ClusterRootIds == {clusters_output[i]["tree"]["id"] : i \in 1..Len(clusters_output)}

\* C15: the id of the root of every compiled cluster tree is the id of no
\* person of the Person table, and of no node below any compiled root,
\* whatever the slug of the cluster, a missing slug included.
C15_ClusterRootId ==
    Loaded =>
        /\ ClusterRootIds \cap DOMAIN nodes = {}
        /\ \A i \in 1..Len(clusters_output) :
              \A k \in 1..Len(clusters_output[i]["tree"]["children"]) :
                  \A n \in TreeNodes(clusters_output[i]["tree"]["children"][k]) :
                      n["id"] \notin ClusterRootIds

\* A cluster whose slug is a person id was compiled while nodes.csv held a
\* row whose id is spelled like that cluster's root id.
C15_Witness ==
    /\ Done
    /\ cluster_index = IndexC
    /\ ID1 \in DOMAIN nodes
    /\ \E i \in 1..Len(nodes_csv) : nodes_csv[i]["id"] = clusters_output[2]["tree"]["id"]
    /\ clusters_output[2]["tree"]["id"] = <<"c", "l", "u", "s", "t", "e", "r", ":", "1">>

-----------------------------------------------------------------------------
\* main with workers that compile the clusters in any order, next to the
\* loop of main that compiles them in the order of the index, on tables of
\* every shape and on a graph with a cycle below a cluster root only.
InitAnyOrder ==
    /\ \/ InitTables
       \/ /\ fieldnames = Columns
          /\ nodes_csv = FullTable
          /\ edges_csv = <<Edge(ID420, ID3), Edge(ID1, ID2), Edge(ID2, ID1)>>
          /\ cluster_index \in ClusterIndexes
          /\ blurbs_json = BlurbsA
    /\ MainStarts

SpecAnyOrder ==
    InitAnyOrder /\ [][Load \/ BuildMaster \/ BuildCluster \/ BuildClusterAny \/ WriteOutput]_vars

AllSectionsCompiled == DOMAIN sections = 1..Len(cluster_index)

-----------------------------------------------------------------------------
\* C18: once the loader has produced the Person table and the Adjacency
\* Index, no step of main (compiling the master tree, compiling a cluster,
\* writing the document) changes either of them.
C18_TablesUnchanged ==
    [][Loaded => (nodes' = nodes /\ children_map' = children_map)]_vars

\* The master tree and two clusters, with person nodes below their roots,
\* were compiled from tables that hold persons and edges.
C18_Witness ==
    /\ Done
    /\ Len(clusters_output) >= 2
    /\ "children" \in DOMAIN master_tree
    /\ \E i \in 1..Len(clusters_output) : clusters_output[i]["tree"]["children"] # <<>>
    /\ DOMAIN children_map # {}

-----------------------------------------------------------------------------
MasterWord == <<"m", "a", "s", "t", "e", "r">>

ClusterWord == <<"c", "l", "u", "s", "t", "e", "r">>

FixedTitle ==
    <<"W", "h", "o", "l", "e", " ", "B", "i", "b", "l", "e", " ",
      "G", "e", "n", "e", "a", "l", "o", "g", "y">>

\* The master section and the cluster sections of the written document have
\* their fixed keys and fixed values.
SectionsShaped ==
    /\ DOMAIN output_file["master"] = {"type", "slug", "title", "tree"}
    /\ output_file["master"]["type"] = MasterWord
    /\ output_file["master"]["slug"] = MasterWord
    /\ output_file["master"]["title"] = FixedTitle
    /\ output_file["master"]["tree"]["id"] = master_root
    /\ \A i \in 1..Len(output_file["clusters"]) :
          /\ DOMAIN output_file["clusters"][i] =
                {"type", "slug", "title", "tooltip", "blurb", "scripture", "tree"}
          /\ output_file["clusters"][i]["type"] = ClusterWord

\* C19, as stated: the written document has exactly a master section and a
\* clusters list at top level; the master section has exactly type
\* "master", slug "master", the fixed title and the tree; every cluster
\* section has exactly type "cluster", slug, title, tooltip, blurb,
\* scripture and tree.
C19_EnvelopeExact ==
    Done => (DOMAIN output_file = {"master", "clusters"} /\ SectionsShaped)

\* C19, amended: the written document has exactly generatedAt (the fixed
\* text "raw-latest"), a master section and a clusters list at top level;
\* the master section has exactly type "master", slug "master", the fixed
\* title and the tree; every cluster section has exactly type "cluster",
\* slug, title, tooltip, blurb, scripture and tree.
C19_Envelope ==
    Done =>
        /\ DOMAIN output_file = {"generatedAt", "master", "clusters"}
        /\ output_file["generatedAt"] = <<"r", "a", "w", "-", "l", "a", "t", "e", "s", "t">>
        /\ SectionsShaped

\* A document was written whose cluster sections have no blurb entry, one
\* of them for an entry without slug and roots.
C19_Witness ==
    /\ Done
    /\ blurbs_json = EmptyDict
    /\ cluster_index = IndexB
    /\ Len(output_file["clusters"]) = 3
    /\ output_file["clusters"][1]["tooltip"] = None
    /\ output_file["clusters"][1]["slug"] = None

-----------------------------------------------------------------------------
\* The places where raw is cut: before it, at each ';', and after it.
Cuts(raw) == {0, Len(raw) + 1} \cup {i \in 1..Len(raw) : raw[i] = ";"}

\* The pieces of raw between consecutive cuts, in order.
PiecesOf(raw) ==
    LET cuts == Cuts(raw)
        nth == CHOOSE f \in [1..Cardinality(cuts) -> cuts] :
                   \A a, b \in 1..Cardinality(cuts) : a < b => f[a] < f[b]
    IN [k \in 1..(Cardinality(cuts) - 1) |-> SubSeq(raw, nth[k] + 1, nth[k + 1] - 1)]

\* piece without the whitespace before its first and after its last
\* character that is not whitespace.
Trimmed(piece) ==
    LET solid == {i \in 1..Len(piece) : piece[i] \notin Whitespace}
    IN IF solid = {} THEN <<>>
       ELSE SubSeq(piece, CHOOSE i \in solid : \A j \in solid : i <= j,
                          CHOOSE i \in solid : \A j \in solid : i >= j)

ExpectedRefs(raw) ==
    LET pieces == PiecesOf(raw)
    IN SelectSeq([k \in 1..Len(pieces) |-> Trimmed(pieces[k])], LAMBDA piece : piece # <<>>)

\* C20: a node compiled by build_tree has a refs field only when the refs
\* cell of its row is non-empty, and then refs is the list of the pieces of
\* the cell between its ';', each trimmed, without the empty ones, in the
\* order of the cell.
C20_Refs ==
    (BuildTreeCalled /\ ~IsExc(call["result"])) =>
        \A n \in TreeNodes(call["result"]) :
            "refs" \in DOMAIN n =>
                LET raw == nodes[n["id"]]["refs"]
                IN /\ raw \notin {None, <<>>}
                   /\ n["refs"] = ExpectedRefs(raw)

\* build_tree has compiled person 420 from a refs cell with an empty piece
\* and a piece to trim, above a child whose refs cell is ";".
C20_Witness ==
    /\ BuildTreeCalled
    /\ call["arg"] = ID420
    /\ nodes[ID420]["refs"] = <<";", " ", "G">>
    /\ call["result"]["refs"] = <<<<"G">>>>
    /\ call["result"]["children"][1]["refs"] = <<>>

-----------------------------------------------------------------------------
\* C22: the output document changes in one step of a run only, the last:
\* after the master tree and a section for every entry of the cluster index
\* have been compiled, to the document of exactly these.  Until then, and
\* in every run that has failed, it is the document written before the run.
C22_WriteLast ==
    [][/\ pc' # "done" => output_file' = PreviousOutput
       /\ output_file' # output_file =>
             /\ pc = "clusters" /\ pc' = "done"
             /\ master_tree # Unbound
             /\ Len(clusters_output) = Len(cluster_index)
             /\ output_file' = output_document(master_tree, clusters_output)]_vars

\* A run failed on its second cluster, after the master tree and the first
\* cluster were compiled, and the earlier document is still in place.
C22_Witness ==
    /\ pc = "failed"
    /\ master_tree # Unbound
    /\ Len(clusters_output) = 1
    /\ output_file = PreviousOutput

-----------------------------------------------------------------------------
\* C23: no TreeNode of a compiled tree, the cluster roots included, has a
\* children field that holds an empty list: a cluster none of whose
\* declared roots is a Person gets a root without children field.
C23_NoEmptyChildren ==
    \A t \in CompiledTrees : \A n \in TreeNodes(t) :
        "children" \in DOMAIN n => n["children"] # <<>>

-----------------------------------------------------------------------------
\* main on node tables, edge tables, cluster indexes and blurb tables of
\* every shape.
InitFixed == InitTables /\ MainStarts

SpecTables == InitFixed /\ [][Next]_vars

\* Where a walk leaves the index or the tree.
Off == <<"<off>">>

\* A walk is a sequence of positions in successive lists of children; a
\* path of the Adjacency Index is a walk that stays in the index.
Walks ==
    LET longest == CHOOSE n \in 0..Len(edges_csv) :
                       /\ \A id \in DOMAIN children_map : Len(children_map[id]) <= n
                       /\ n = 0 \/ \E id \in DOMAIN children_map : Len(children_map[id]) = n
        fan == 1 + longest
        depth == Cardinality(DOMAIN nodes)
    IN UNION {[1..k -> 1..fan] : k \in 0..depth}

\* The id the walk from id ends at in the Adjacency Index.
RECURSIVE IndexEnd(_, _)
IndexEnd(id, walk) ==
    IF walk = <<>> THEN id
    ELSE LET targets == GetDefault(children_map, id, <<>>)
         IN IF Head(walk) > Len(targets) THEN Off
            ELSE IndexEnd(targets[Head(walk)], Tail(walk))

\* The id of the TreeNode the walk from the root of t ends at.
RECURSIVE TreeEnd(_, _)
TreeEnd(t, walk) ==
    IF walk = <<>> THEN t["id"]
    ELSE IF Head(walk) > Len(Children(t)) THEN Off
    ELSE TreeEnd(Children(t)[Head(walk)], Tail(walk))

\* No path of the Adjacency Index from r comes back to an id it has left.
AcyclicBelow(r) ==
    \A w \in Walks : \A k \in 0..(Len(w) - 1) :
        IndexEnd(r, w) # Off => IndexEnd(r, w) # IndexEnd(r, SubSeq(w, 1, k))

\* C24: where the relation below its root r is acyclic, a compiled tree has
\* one TreeNode for each path of the Adjacency Index from r, a repeated
\* edge making two paths: the walks that stay in the tree are the walks
\* that stay in the index, and the node a walk ends at has the id the walk
\* ends at in the index.
C24_NodePerPath ==
    Loaded =>
        \A t \in PersonTrees :
            AcyclicBelow(t["id"]) =>
                \A w \in Walks : TreeEnd(t, w) = IndexEnd(t["id"], w)

\* A written master tree that holds person 3 at the end of two paths, and
\* person 2 twice below the root.
C24_Witness ==
    /\ Done
    /\ AcyclicBelow(master_root)
    /\ \E w1, w2 \in Walks :
          /\ w1 # w2
          /\ TreeEnd(master_tree, w1) = ID3
          /\ TreeEnd(master_tree, w2) = ID3
    /\ TreeEnd(master_tree, <<1>>) = ID2
    /\ TreeEnd(master_tree, <<3>>) = ID2

-----------------------------------------------------------------------------
\* main on tables of every shape, and build_tree called directly on the
\* loaded tables.
SpecCompile == InitFixed /\ [][Next \/ CallBuildTree]_vars

\* C25: with the tables the loader produced, every id listed in the
\* Adjacency Index is in the Person table, so a KeyError raised by
\* build_tree comes from the outermost call, for the root the caller
\* passed; main, which checks the master root and filters the cluster
\* roots, never ends in a KeyError.
C25_UnknownIdOnlyAtRoot ==
    Loaded =>
        /\ \A id \in DOMAIN children_map : Range(children_map[id]) \subseteq DOMAIN nodes
        /\ error["exc"] # "KeyError"
        /\ (BuildTreeCalled /\ IsExc(call["result"]) /\ call["result"]["exc"] = "KeyError") =>
              /\ call["result"]["traceback"] = <<call["arg"]>>
              /\ call["arg"] \notin DOMAIN nodes

\* build_tree has compiled person 420 with descendants from an edge table
\* that lists an edge from a person to a legend row and an edge out of a
\* legend row.
C25_Witness ==
    /\ BuildTreeCalled
    /\ call["arg"] = ID420
    /\ ~IsExc(call["result"])
    /\ "children" \in DOMAIN call["result"]
    /\ \E i \in 1..Len(edges_csv) :
          edges_csv[i]["sourceId"] \in DOMAIN nodes /\ edges_csv[i]["targetId"] \notin DOMAIN nodes
    /\ \E i \in 1..Len(nodes_csv) : nodes_csv[i]["id"] = IDLegend

-----------------------------------------------------------------------------
\* C26: the refs field of a compiled TreeNode, when it has one, is a
\* non-empty list of non-empty strings; a refs cell made of ';' and
\* whitespace only gives no refs field.
C26_RefsNonEmpty ==
    (BuildTreeCalled /\ ~IsExc(call["result"])) =>
        \A n \in TreeNodes(call["result"]) :
            "refs" \in DOMAIN n =>
                /\ n["refs"] # <<>>
                /\ \A i \in 1..Len(n["refs"]) : n["refs"][i] # <<>>

-----------------------------------------------------------------------------
(* The row-marking utilities *)

\* The two utilities run any number of times, in any order, on every
\* nodes.csv file of the pool.
InitMark ==
    /\ \E file \in MarkFiles : fieldnames = file.fieldnames /\ nodes_csv = file.rows
    /\ edges_csv = <<>>
    /\ cluster_index = <<>>
    /\ blurbs_json = EmptyDict
    /\ MainStarts

SpecMark == InitMark /\ [][UpdateJudges \/ UpdateMessianicLine]_vars

\* The name of a row, trimmed; None when the row has no name.
TrimmedName(row) ==
    IF GetDefault(row, "name", None) = None THEN None ELSE Trimmed(row["name"])

\* C21: once update_judges has returned without an exception, every row of
\* nodes.csv whose trimmed name is in JUDGES has judge = 'true', and once
\* update_messianic_line has, every row whose trimmed name is in
\* MESSIANIC_LINE has messiahLine = 'true'.
C21_MatchingRowsMarked ==
    /\ "update_judges" \in Completed =>
          \A i \in 1..Len(nodes_csv) :
              TrimmedName(nodes_csv[i]) \in JUDGES => Get(nodes_csv[i], "judge") = TrueText
    /\ "update_messianic_line" \in Completed =>
          \A i \in 1..Len(nodes_csv) :
              TrimmedName(nodes_csv[i]) \in MESSIANIC_LINE =>
                  Get(nodes_csv[i], "messiahLine") = TrueText

\* update_judges has marked a row whose name has a blank to trim and whose
\* flag was 'false', and a row that had no flag cell.
C21_Witness ==
    /\ call["fn"] = "update_judges"
    /\ call["result"] = "None"
    /\ Len(nodes_csv) = 2
    /\ call["arg"].rows[1] = RowSamson
    /\ call["arg"].rows[2] = RowSamsonShort
    /\ nodes_csv[1]["judge"] = TrueText
    /\ nodes_csv[2]["judge"] = TrueText

-----------------------------------------------------------------------------
UtilityCalled == call["fn"] \in {"update_judges", "update_messianic_line"}

\* The flag column and the name set of the utility that ran last.
FlagColumn == IF call["fn"] = "update_judges" THEN "judge" ELSE "messiahLine"

NameSet == IF call["fn"] = "update_judges" THEN JUDGES ELSE MESSIANIC_LINE

\* C27: a row-marking utility leaves the column list, the number of rows
\* and their order as they were; a row whose trimmed name is not in the
\* utility's name set is written back as it was, whatever its flag; a row
\* whose trimmed name is in the set is written back the same but for the
\* flag column; and a flag that was 'true' is 'true' afterwards.
C27_OnlyTheFlag ==
    UtilityCalled =>
        LET before == call["arg"].rows
        IN /\ fieldnames = call["arg"].fieldnames
           /\ Len(nodes_csv) = Len(before)
           /\ \A i \in 1..Len(before) :
                 /\ TrimmedName(before[i]) \notin NameSet => nodes_csv[i] = before[i]
                 /\ \A k \in DOMAIN before[i] \ {FlagColumn} :
                       k \in DOMAIN nodes_csv[i] /\ nodes_csv[i][k] = before[i][k]
                 /\ DOMAIN nodes_csv[i] \subseteq DOMAIN before[i] \cup {FlagColumn}
                 /\ Get(before[i], FlagColumn) = TrueText =>
                       Get(nodes_csv[i], FlagColumn) = TrueText

-----------------------------------------------------------------------------
\* C28: when a row-marking utility stops on an exception, or finds no
\* nodes.csv, the file is what it was before the run: header and rows.
C28_FailureKeepsFile ==
    (UtilityCalled /\ (call["result"] # "None" \/ call["arg"].fieldnames = Missing)) =>
        NodesFile = call["arg"]

-----------------------------------------------------------------------------
\* nodes.csv after a utility has run on file, whatever the way it stopped.
FileAfter(result) == [fieldnames |-> result.fieldnames, rows |-> result.rows]

\* C29: a row-marking utility run right after itself leaves nodes.csv as
\* its first run left it, and from every nodes.csv the two utilities give
\* the same file in either order.
C29_IdempotentCommute ==
    /\ [](FileAfter(update_messianic_line(FileAfter(update_judges(NodesFile)))) =
          FileAfter(update_judges(FileAfter(update_messianic_line(NodesFile)))))
    /\ [][(UtilityCalled /\ call'["fn"] = call["fn"]) =>
             (fieldnames' = fieldnames /\ nodes_csv' = nodes_csv)]_vars

\* update_judges has run a second time, after update_messianic_line, on a
\* file in which Samson and Eli were marked already; Eli is in both sets.
C29_Witness ==
    /\ call["fn"] = "update_judges"
    /\ "update_messianic_line" \in Completed
    /\ \E i \in 1..Len(call["arg"].rows) :
          call["arg"].rows[i]["id"] = ID5 /\ Get(call["arg"].rows[i], "judge") = TrueText
    /\ \E i \in 1..Len(nodes_csv) :
          /\ nodes_csv[i]["id"] = ID3
          /\ Get(nodes_csv[i], "judge") = TrueText
          /\ Get(nodes_csv[i], "messiahLine") = TrueText

-----------------------------------------------------------------------------
\* The utilities run on nodes.csv, and then the generator.
FlowIndex == <<[slug |-> SlugJ, title |-> <<"J", "u", "d">>, roots |-> <<ID5, ID3>>]>>

InitFlow ==
    /\ fieldnames \in {Columns, Without(Columns, {"judge"})}
    /\ \E rows \in SeqsUpTo({Row3, RowSamson, RowSaul, RowSamsonShort}, MaxRows - 1) :
          nodes_csv = [i \in 1..(Len(rows) + 1) |->
                          UnderHeader(IF i = 1 THEN Row420 ELSE rows[i - 1], fieldnames)]
    /\ edges_csv = <<Edge(ID420, ID3), Edge(ID420, ID5), Edge(ID3, ID6), Edge(ID5, ID3)>>
    /\ cluster_index = FlowIndex
    /\ blurbs_json = BlurbsA
    /\ MainStarts

SpecFlow == InitFlow /\ [][UpdateJudges \/ UpdateMessianicLine \/ Next]_vars

\* C30: once update_judges has returned without an exception, every row
\* whose trimmed name is in JUDGES holds a flag that parse_bool reads as
\* true, and every TreeNode the generator then renders, in the master tree
\* or in a cluster tree, for a person whose trimmed name is in JUDGES has
\* judge: true.
C30_FlagFlow ==
    "update_judges" \in Completed =>
        /\ \A i \in 1..Len(nodes_csv) :
              TrimmedName(nodes_csv[i]) \in JUDGES =>
                  parse_bool(Get(nodes_csv[i], "judge")) = "True"
        /\ \A n \in PersonNodes :
              TrimmedName(SourceRow(n)) \in JUDGES =>
                  ("judge" \in DOMAIN n /\ n["judge"] = TRUE)

\* The generator has written a document after update_judges marked Samson,
\* whose flag was 'false' or missing, and Eli: both are in the master tree
\* and in the cluster tree with judge: true.
C30_Witness ==
    /\ Done
    /\ call["fn"] = "update_judges"
    /\ "update_judges" \in Completed
    /\ \E i \in 1..Len(call["arg"].rows) :
          call["arg"].rows[i]["id"] = ID5 /\ Get(call["arg"].rows[i], "judge") # TrueText
    /\ \E n \in TreeNodes(master_tree) : n["id"] = ID5 /\ "judge" \in DOMAIN n
    /\ \E n \in TreeNodes(clusters_output[1]["tree"]) : n["id"] = ID3 /\ "judge" \in DOMAIN n

====
